---- MODULE Spec2Model ----
(***************************************************************************)
(* Model of the Bybit deviation monitor (src/bybit价差1.5.py):             *)
(* load_platforms, fetch_bybit_data, process_data, the alert record file   *)
(* (load_arb_records / save_arb_records / filter_new_alerts) and the       *)
(* polling loop main_loop.                                                 *)
(*                                                                         *)
(* Representation.                                                         *)
(*  - A Python str on which the code does character work (symbols, tokens, *)
(*    pairs, UPDATE_JSON) is a sequence of one-character strings.          *)
(*  - A Python float is a fixed-point integer with four decimals           *)
(*    (10000 is 1.0), so a percentage of 1.004 is 10040 and a price of     *)
(*    10.1004 is 101004.  Inputs are chosen so that the divisions of the   *)
(*    code are exact at this resolution.                                   *)
(*  - A string made by f"{x:.2f}" is the integer number of hundredths it   *)
(*    shows; one made by f"{x:.4f}" the number of ten-thousandths.         *)
(*  - The registry type tag "合约" of the source is written "heyue" and    *)
(*    the tag "借贷" of a lending venue "jiedai".                          *)
(***************************************************************************)
EXTENDS Integers, Sequences, FiniteSets, TLC

VARIABLES
    UPDATE_JSON,      \* configuration constant of the run (line 12)
    platforms_file,   \* content of platforms.json
    file,             \* content of arbitrage_records.json
    token_map,        \* main_loop: registry index
    pc,               \* position of main_loop
    exc,              \* exception that ended the process, "none" otherwise
    raw_data,         \* main_loop: snapshot of the tick
    arbitrage_list,   \* main_loop: candidates of the tick
    platform_list,    \* main_loop: opportunities of the tick
    critical_alerts,  \* main_loop: alert-eligible list of the tick
    existing,         \* filter_new_alerts: the dict, as its ordered values
    new_alerts,       \* filter_new_alerts / main_loop: the new records
    now,              \* int(time.time())
    returnedRun,      \* history: tokens returned as new in this process run
    returnedPast,     \* history: tokens returned as new in earlier runs
    failedRun,        \* history: tokens returned as new in this run by a call whose write failed
    writeFailed,      \* history: some write of the record file failed or was cut short
    fetchFailed,      \* history: the fetch of the tick under way failed
    fileAtTick        \* history: the record file when the tick under way began

vars == <<UPDATE_JSON, platforms_file, file, token_map, pc, exc, raw_data,
          arbitrage_list, platform_list, critical_alerts, existing,
          new_alerts, now, returnedRun, returnedPast, failedRun, writeFailed,
          fetchFailed, fileAtTick>>

----------------------------------------------------------------------------
(* Bounds *)

MaxTickers == 2       \* longest snapshot given to process_data on its own
MaxLoopTickers == 2   \* longest snapshot of a tick of the polling loop
MaxClock == 3         \* ticks of the clock (and so cycles) explored

----------------------------------------------------------------------------
(* Python str operations *)

\* str.upper() on the letters the inputs use
upper_char(c) ==
    CASE c = "f" -> "F" [] c = "o" -> "O" [] c = "b" -> "B" [] c = "a" -> "A"
      [] c = "r" -> "R" [] c = "y" -> "Y" [] c = "e" -> "E" [] c = "s" -> "S"
      [] c = "n" -> "N" [] OTHER -> c

\* str.lower() on the letters the inputs use
lower_char(c) ==
    CASE c = "F" -> "f" [] c = "O" -> "o" [] c = "B" -> "b" [] c = "A" -> "a"
      [] c = "R" -> "r" [] c = "Y" -> "y" [] c = "E" -> "e" [] c = "S" -> "s"
      [] c = "N" -> "n" [] OTHER -> c

str_upper(s) == [i \in DOMAIN s |-> upper_char(s[i])]

str_lower(s) == [i \in DOMAIN s |-> lower_char(s[i])]

RECURSIVE str_lstrip(_)
str_lstrip(s) ==
    IF s # <<>> /\ Head(s) = " " THEN str_lstrip(Tail(s)) ELSE s

RECURSIVE str_rstrip(_)
str_rstrip(s) ==
    IF s # <<>> /\ s[Len(s)] = " " THEN str_rstrip(SubSeq(s, 1, Len(s) - 1)) ELSE s

str_strip(s) == str_rstrip(str_lstrip(s))

USDT == <<"U", "S", "D", "T">>

endswith(s, suffix) ==
    /\ Len(s) >= Len(suffix)
    /\ SubSeq(s, Len(s) - Len(suffix) + 1, Len(s)) = suffix

\* s.split('_')[0]: the characters before the first underscore
RECURSIVE split_first(_)
split_first(s) ==
    IF s = <<>> \/ Head(s) = "_" THEN <<>> ELSE <<Head(s)>> \o split_first(Tail(s))

----------------------------------------------------------------------------
(* Python float operations, fixed point with four decimals *)

ONE == 10000

Abs(x) == IF x < 0 THEN -x ELSE x

\* x rounded to a multiple of q, halves to even, as the quotient
RoundDiv(x, q) ==
    LET a == Abs(x)
        n == a \div q
        r == a % q
        m == IF 2 * r > q THEN n + 1
             ELSE IF 2 * r < q THEN n
             ELSE IF n % 2 = 0 THEN n ELSE n + 1
    IN  IF x < 0 THEN -m ELSE m

\* f"{x:.2f}": hundredths shown
fmt2(x) == RoundDiv(x, ONE \div 100)

\* f"{x:.4f}": ten-thousandths shown
fmt4(x) == RoundDiv(x, ONE \div 10000)

\* float(s) of a string made by fmt2
parse2(h) == h * (ONE \div 100)

\* item[key] followed by float(...): the exception raised, or the value.
\* A raw field is [k, v]: k = "missing" (no such key), "null" (None),
\* "text" (a string that is no number) or "num" (a number or numeric string).
float_of(raw) ==
    CASE raw.k = "missing" -> [exc |-> "KeyError", v |-> 0]
      [] raw.k = "null"    -> [exc |-> "TypeError", v |-> 0]
      [] raw.k = "text"    -> [exc |-> "ValueError", v |-> 0]
      [] OTHER             -> [exc |-> "none", v |-> raw.v]

----------------------------------------------------------------------------
(* Configuration constants, lines 12-15 *)

DEVIATION_THRESHOLD == 4000              \* 0.4
ARBITRAGE_THRESHOLD_CONTRACT == 10000    \* 1
ARBITRAGE_THRESHOLD_LENDING == 30000     \* 3

----------------------------------------------------------------------------
(* load_platforms, lines 20-37 *)

EmptyMap == [t \in {} |-> <<>>]

\* token_map.setdefault(clean_token, []).append(entry)
setdefault_append(tm, key, entry) ==
    IF key \in DOMAIN tm
    THEN [tm EXCEPT ![key] = Append(@, entry)]
    ELSE tm @@ (key :> <<entry>>)

\* the inner loop "for token in p['pairs']" over the tokens left of p
RECURSIVE add_pairs(_, _, _)
add_pairs(tm, p, pairs) ==
    IF pairs = <<>> THEN [exc |-> "none", map |-> tm]
    ELSE IF p.platform.k = "missing" \/ p.type.k = "missing"
    THEN [exc |-> "KeyError", map |-> tm]
    ELSE LET clean_token == str_upper(str_strip(Head(pairs)))
             entry == [platform |-> p.platform.v, type |-> p.type.v]
         IN  add_pairs(setdefault_append(tm, clean_token, entry), p, Tail(pairs))

\* the outer loop "for p in platforms"
RECURSIVE add_platforms(_, _)
add_platforms(tm, platforms) ==
    IF platforms = <<>> THEN [exc |-> "none", map |-> tm]
    ELSE LET p == Head(platforms)
         IN  IF p.pairs.k = "missing" THEN [exc |-> "KeyError", map |-> tm]
             ELSE LET r == add_pairs(tm, p, p.pairs.v)
                  IN  IF r.exc # "none" THEN r
                      ELSE add_platforms(r.map, Tail(platforms))

\* the bug of returning the index filled so far when a descriptor raises
load_platforms_partial(cfg) ==
    IF cfg.k # "json" THEN EmptyMap
    ELSE add_platforms(EmptyMap, cfg.v).map

\* the file is [k |-> "unreadable"] (open or json.load raises) or
\* [k |-> "json", v |-> the descriptors]
load_platforms(cfg) ==
    IF cfg.k # "json" THEN EmptyMap
    ELSE LET r == add_platforms(EmptyMap, cfg.v)
         IN  IF r.exc # "none" THEN EmptyMap ELSE r.map

----------------------------------------------------------------------------
(* process_data, lines 49-102 *)

\* line 76, deviation = (index_price / mark_price - 1) * 100; mark_price # 0
deviation_of(index_price, mark_price) ==
    ((index_price - mark_price) * 100 * ONE) \div mark_price

\* the bug of an inclusive comparison at line 77
is_candidate_inclusive(deviation) == Abs(deviation) >= DEVIATION_THRESHOLD

\* line 77
is_candidate(deviation) == Abs(deviation) > DEVIATION_THRESHOLD

\* the bug of taking the first registry entry only
venues_of_first_only(base_token, deviation, funding_rate, tm) ==
    IF base_token \in DOMAIN tm
    THEN << [pair |-> base_token \o <<"_">> \o USDT,
             deviation |-> deviation,
             funding_rate |-> funding_rate,
             type |-> tm[base_token][1].type,
             platform |-> tm[base_token][1].platform] >>
    ELSE <<>>

\* lines 89-96: one opportunity per registry entry of the token
venues_of(base_token, deviation, funding_rate, tm) ==
    IF base_token \in DOMAIN tm
    THEN [i \in 1..Len(tm[base_token]) |->
            [pair |-> base_token \o <<"_">> \o USDT,
             deviation |-> deviation,
             funding_rate |-> funding_rate,
             type |-> tm[base_token][i].type,
             platform |-> tm[base_token][i].platform]]
    ELSE <<>>

\* lines 56-57, for a symbol that is a str
base_token_of(sym) ==
    LET symbol == str_upper(sym)
    IN  IF endswith(symbol, USDT) THEN SubSeq(symbol, 1, Len(symbol) - 4) ELSE symbol

\* the body of the loop for one item (lines 56-96): the exception that
\* leaves process_data, or the candidates and opportunities appended (devs
\* keeps the value of the local "deviation" of each candidate appended)
process_item(item, tm) ==
    LET none == [exc |-> "none", cands |-> <<>>, devs |-> <<>>, opps |-> <<>>]
    IN
    IF item.symbol.k = "missing" THEN [none EXCEPT !.exc = "KeyError"]
    ELSE IF item.symbol.k = "null" THEN [none EXCEPT !.exc = "AttributeError"]
    ELSE
    LET base_token == base_token_of(item.symbol.v)
        mark == float_of(item.markPrice)
        index == float_of(item.indexPrice)
        funding == float_of(item.fundingRate)
        first == IF mark.exc # "none" THEN mark.exc
                 ELSE IF index.exc # "none" THEN index.exc
                 ELSE funding.exc
    IN
    IF first \in {"KeyError", "ValueError"} THEN none          \* continue
    ELSE IF first # "none" THEN [none EXCEPT !.exc = first]   \* not caught
    ELSE IF mark.v = 0 THEN [none EXCEPT !.exc = "ZeroDivisionError"]
    ELSE
    LET mark_price == mark.v
        index_price == index.v
        funding_rate == funding.v * 100
        deviation == deviation_of(index_price, mark_price)
    IN
    IF ~is_candidate(deviation) THEN none
    ELSE [exc |-> "none",
          cands |-> << [token |-> base_token,
                        deviation |-> fmt2(deviation),
                        funding_rate |-> fmt2(funding_rate),
                        index_price |-> fmt4(index_price),
                        mark_price |-> fmt4(mark_price)] >>,
          devs |-> <<deviation>>,
          opps |-> venues_of(base_token, deviation, funding_rate, tm)]

\* the loop "for item in raw_data", stopped by the first exception
RECURSIVE process_loop(_, _)
process_loop(items, tm) ==
    IF items = <<>> THEN [exc |-> "none", cands |-> <<>>, devs |-> <<>>, opps |-> <<>>]
    ELSE LET r == process_item(Head(items), tm)
         IN  IF r.exc # "none" THEN r
             ELSE LET rest == process_loop(Tail(items), tm)
                  IN  IF rest.exc # "none" THEN rest
                      ELSE [exc |-> "none",
                            cands |-> r.cands \o rest.cands,
                            devs |-> r.devs \o rest.devs,
                            opps |-> r.opps \o rest.opps]

\* list.sort is stable: x goes after every element whose key is not after x's
RECURSIVE insert_sorted(_, _)
insert_sorted(s, x) ==
    IF s = <<>> THEN <<x>>
    ELSE IF x.key[1] < Head(s).key[1]
            \/ (x.key[1] = Head(s).key[1] /\ x.key[2] < Head(s).key[2])
    THEN <<x>> \o s
    ELSE <<Head(s)>> \o insert_sorted(Tail(s), x)

\* sorted ascending by key, a pair of numbers; s holds [key, val]
RECURSIVE list_sort(_)
list_sort(s) ==
    IF s = <<>> THEN <<>>
    ELSE insert_sorted(list_sort(SubSeq(s, 1, Len(s) - 1)), s[Len(s)])

\* line 99: key abs(float(x['deviation'][:-1])), reverse=True
arbitrage_key(x) == << -Abs(parse2(x.deviation)), 0 >>

\* the bug of leaving the funding rate out of the key
platform_key_deviation_only(x) == << -Abs(x.deviation), 0 >>

\* line 100: key (-abs(deviation), -abs(funding_rate))
platform_key(x) == << -Abs(x.deviation), -Abs(x.funding_rate) >>

sort_arbitrage_list(l) ==
    LET keyed == [i \in DOMAIN l |-> [key |-> arbitrage_key(l[i]), val |-> l[i]]]
        sorted == list_sort(keyed)
    IN  [i \in DOMAIN l |-> sorted[i].val]

sort_platform_list(l) ==
    LET keyed == [i \in DOMAIN l |-> [key |-> platform_key(l[i]), val |-> l[i]]]
        sorted == list_sort(keyed)
    IN  [i \in DOMAIN l |-> sorted[i].val]

process_data(items, tm) ==
    LET r == process_loop(items, tm)
    IN  IF r.exc # "none" THEN [exc |-> r.exc, arbitrage_list |-> <<>>, platform_list |-> <<>>]
        ELSE [exc |-> "none",
              arbitrage_list |-> sort_arbitrage_list(r.cands),
              platform_list |-> sort_platform_list(r.opps)]

----------------------------------------------------------------------------
(* main_loop, lines 208-221: the alert-eligible list *)

TYPE_CONTRACT == "heyue"

\* line 210
threshold_of(type) ==
    IF type = TYPE_CONTRACT THEN ARBITRAGE_THRESHOLD_CONTRACT
    ELSE ARBITRAGE_THRESHOLD_LENDING

\* the bug of a strict comparison at line 211
is_critical_strict(item) == Abs(item.deviation) > threshold_of(item.type)

\* line 211
is_critical(item) == Abs(item.deviation) >= threshold_of(item.type)

\* lines 212-221
alert_of(item) ==
    [token |-> split_first(item.pair),
     message |-> [pair |-> item.pair,
                  deviation |-> fmt2(Abs(item.deviation)),
                  funding_rate |-> fmt2(item.funding_rate),
                  platform |-> item.platform]]

RECURSIVE build_critical_alerts(_)
build_critical_alerts(l) ==
    IF l = <<>> THEN <<>>
    ELSE (IF is_critical(Head(l)) THEN <<alert_of(Head(l))>> ELSE <<>>)
         \o build_critical_alerts(Tail(l))

----------------------------------------------------------------------------
(* The alert record file, lines 105-140 *)

\* The file is [k, v]: k = "absent"; "unparsable" (unreadable, empty, cut
\* short or otherwise no JSON); "malformed" (JSON, but not a list of records
\* each with a token); "records" (the list v of records).

\* lines 107-111: the parsed value, [] for an absent file or on any exception
load_arb_records(f) ==
    IF f.k = "absent" THEN [k |-> "records", v |-> <<>>]
    ELSE IF f.k = "unparsable" THEN [k |-> "records", v |-> <<>>]
    ELSE f

\* the bug of writing whatever UPDATE_JSON says
persistence_always(update_json) == TRUE

\* line 115
persistence_enabled(update_json) == str_lower(update_json) = <<"y", "e", "s">>

\* a dict is the sequence of its values in insertion order, keyed by token
has_key(d, token) == \E i \in DOMAIN d : d[i].token = token

\* d[r['token']] = r: a known key keeps its place and takes the new value
dict_put(d, r) ==
    IF has_key(d, r.token)
    THEN [i \in DOMAIN d |-> IF d[i].token = r.token THEN r ELSE d[i]]
    ELSE Append(d, r)

\* line 123: {r['token']: r for r in records}
RECURSIVE dict_of(_)
dict_of(records) ==
    IF records = <<>> THEN <<>>
    ELSE dict_put(dict_of(SubSeq(records, 1, Len(records) - 1)), records[Len(records)])

\* the bug of taking every alert for new
is_new_always(d, token) == TRUE

\* line 128
is_new(d, token) == ~has_key(d, token)

\* the bug of leaving line 135 out
remember_not(d, new_entry) == d

\* line 135: existing[token] = new_entry
remember(d, new_entry) == dict_put(d, new_entry)

\* lines 126-135: the loop over current_alerts
RECURSIVE filter_loop(_, _, _)
filter_loop(alerts, d, time) ==
    IF alerts = <<>> THEN [new_alerts |-> <<>>, existing |-> d]
    ELSE LET alert == Head(alerts)
             new_entry == [token |-> alert.token,
                           timestamp |-> time,
                           message |-> alert.message]
         IN  IF is_new(d, alert.token)
             THEN LET rest == filter_loop(Tail(alerts), remember(d, new_entry), time)
                  IN  [new_alerts |-> <<new_entry>> \o rest.new_alerts,
                       existing |-> rest.existing]
             ELSE filter_loop(Tail(alerts), d, time)

\* lines 123-135, for a loaded list of records
filter_new(alerts, records, time) == filter_loop(alerts, dict_of(records), time)

\* the bug of writing the new records only
saved_records_new_only(d, new) == new

\* the bug of writing the new records after a mapping that holds them already
saved_records_with_new(d, new) == d \o new

\* line 138: the argument of save_arb_records, list(existing.values())
saved_records(d, new) == d

tokens_of(l) == {l[i].token : i \in DOMAIN l}

----------------------------------------------------------------------------
(* Inputs *)

Str(s) == [k |-> "str", v |-> s]
Num(n) == [k |-> "num", v |-> n]
Missing == [k |-> "missing", v |-> 0]
Null == [k |-> "null", v |-> 0]
Text == [k |-> "text", v |-> 0]

FOO == <<"F", "O", "O">>
BAR == <<"B", "A", "R">>
QUX == <<"Q", "U", "X">>

Ticker(symbol, mark, index, funding) ==
    [symbol |-> symbol, markPrice |-> mark, indexPrice |-> index, fundingRate |-> funding]

\* deviation 1.00: at the contract threshold
T_FooAtContract == Ticker(Str(FOO \o USDT), Num(100000), Num(101000), Num(1))
\* deviation 1.004, shown as 1.00
T_Foo1004 == Ticker(Str(FOO \o USDT), Num(100000), Num(101004), Num(-2))
\* deviation 0.999, shown as 1.00: below the contract threshold
T_FooBelowContract == Ticker(Str(FOO \o USDT), Num(100000), Num(100999), Num(1))
\* no suffix, deviation 3.00: at the lending threshold
T_FooAtLending == Ticker(Str(FOO), Num(50000), Num(51500), Num(1))
\* deviation 1.001, shown as 1.00
T_Bar1001 == Ticker(Str(BAR \o USDT), Num(100000), Num(101001), Num(1))
\* deviation 0.40: at the deviation threshold
T_BarAtThreshold == Ticker(Str(BAR \o USDT), Num(100000), Num(100400), Num(1))
\* lower-case symbol, deviation -3.10
T_BarNegative == Ticker(Str(<<"b", "a", "r">> \o USDT), Num(50000), Num(48450), Num(-2))
\* deviation 0.401, a token of no venue
T_QuxNoVenue == Ticker(Str(QUX \o USDT), Num(100000), Num(100401), Num(1))
\* deviation -1.00, funding rate -0.02%
T_BarMinusOne == Ticker(Str(BAR \o USDT), Num(100000), Num(99000), Num(-2))
T_ZeroMark == Ticker(Str(FOO \o USDT), Num(0), Num(101000), Num(1))
T_NoSymbol == Ticker(Missing, Num(100000), Num(101000), Num(1))
T_NoMark == Ticker(Str(FOO \o USDT), Missing, Num(101000), Num(1))
T_TextIndex == Ticker(Str(BAR \o USDT), Num(100000), Text, Num(1))
T_NullFunding == Ticker(Str(FOO \o USDT), Num(100000), Num(101000), Null)

Tickers ==
    {T_FooAtContract, T_Foo1004, T_FooBelowContract, T_FooAtLending, T_Bar1001,
     T_BarAtThreshold, T_BarNegative, T_BarMinusOne, T_QuxNoVenue, T_ZeroMark, T_NoSymbol,
     T_NoMark, T_TextIndex, T_NullFunding}

LoopTickers == {T_FooAtContract, T_BarNegative, T_ZeroMark}

SeqsUpTo(S, n) == UNION {[1..m -> S] : m \in 0..n}

Venue(platform, type, pairs) ==
    [platform |-> [k |-> "val", v |-> platform],
     type |-> [k |-> "val", v |-> type],
     pairs |-> [k |-> "val", v |-> pairs]]

PlatformsGood ==
    [k |-> "json",
     v |-> << Venue("X", "heyue", << <<" ", "f", "o", "o">>, BAR >>),
              Venue("Y", "jiedai", << FOO, <<"b", "a", "r", " ">> >>) >>]

PlatformsUnreadable == [k |-> "unreadable", v |-> <<>>]

PlatformFiles == {PlatformsGood, PlatformsUnreadable}

NoKey == [k |-> "missing", v |-> <<>>]

\* no padding in the tokens
PlatformsPlain ==
    [k |-> "json",
     v |-> << Venue("X", "heyue", << <<"f", "o", "o">>, BAR >>),
              Venue("Y", "jiedai", << FOO >>) >>]

PlatformsEmpty == [k |-> "json", v |-> <<>>]

\* a descriptor without "pairs" after a valid one
PlatformsNoPairs ==
    [k |-> "json",
     v |-> << Venue("X", "heyue", << FOO >>),
              [Venue("Y", "jiedai", <<>>) EXCEPT !.pairs = NoKey] >>]

\* a descriptor without "type" after a valid one
PlatformsNoType ==
    [k |-> "json",
     v |-> << Venue("X", "heyue", << FOO >>),
              [Venue("Y", "jiedai", << BAR >>) EXCEPT !.type = NoKey] >>]

\* a descriptor without "platform" and with no pair after a valid one
PlatformsNoPlatformNoPair ==
    [k |-> "json",
     v |-> << Venue("X", "heyue", << FOO >>),
              [Venue("Y", "jiedai", <<>>) EXCEPT !.platform = NoKey] >>]

RegistryFiles ==
    {PlatformsGood, PlatformsUnreadable, PlatformsPlain, PlatformsEmpty,
     PlatformsNoPairs, PlatformsNoType, PlatformsNoPlatformNoPair}

FooRecord ==
    [token |-> FOO, timestamp |-> 0,
     message |-> [pair |-> FOO \o <<"_">> \o USDT, deviation |-> 250,
                  funding_rate |-> 1, platform |-> "X"]]

InitFiles ==
    {[k |-> "absent", v |-> <<>>],
     [k |-> "unparsable", v |-> <<>>],
     [k |-> "malformed", v |-> <<>>],
     [k |-> "records", v |-> <<>>],
     [k |-> "records", v |-> <<FooRecord>>]}

UpdateJsonValues == {<<"n", "o">>, <<"Y", "e", "s">>}

----------------------------------------------------------------------------
(* The polling loop, lines 156-242 *)

LoopPcs == {"boot", "fetch", "process", "alerts", "filter", "save_open",
            "save_write", "notify"}

InitCommon ==
    /\ exc = "none"
    /\ arbitrage_list = <<>>
    /\ platform_list = <<>>
    /\ critical_alerts = <<>>
    /\ existing = <<>>
    /\ new_alerts = <<>>
    /\ now = 0
    /\ returnedRun = {}
    /\ returnedPast = {}
    /\ failedRun = {}
    /\ writeFailed = FALSE
    /\ fetchFailed = FALSE
    /\ fileAtTick = file

Init ==
    /\ UPDATE_JSON \in UpdateJsonValues
    /\ platforms_file \in PlatformFiles
    /\ file \in InitFiles
    /\ token_map = EmptyMap
    /\ pc = "boot"
    /\ raw_data = <<>>
    /\ InitCommon

\* line 160
Boot ==
    /\ pc = "boot"
    /\ token_map' = load_platforms(platforms_file)
    /\ pc' = "fetch"
    /\ UNCHANGED <<fetchFailed, fileAtTick>>
    /\ UNCHANGED <<UPDATE_JSON, platforms_file, file, exc, raw_data, arbitrage_list,
                   platform_list, critical_alerts, existing, new_alerts, now,
                   returnedRun, returnedPast, failedRun, writeFailed>>

\* lines 42-44: the feed answers with retCode 0 and a list
FetchOk ==
    /\ pc = "fetch"
    /\ now < MaxClock
    /\ \E snapshot \in SeqsUpTo(LoopTickers, MaxLoopTickers) : raw_data' = snapshot
    /\ pc' = "process"
    /\ fetchFailed' = FALSE
    /\ fileAtTick' = file
    /\ UNCHANGED <<UPDATE_JSON, platforms_file, file, token_map, exc, arbitrage_list,
                   platform_list, critical_alerts, existing, new_alerts, now,
                   returnedRun, returnedPast, failedRun, writeFailed>>

\* lines 44-47: another retCode, or an exception
FetchFails ==
    /\ pc = "fetch"
    /\ now < MaxClock
    /\ raw_data' = <<>>
    /\ pc' = "process"
    /\ fetchFailed' = TRUE
    /\ fileAtTick' = file
    /\ UNCHANGED <<UPDATE_JSON, platforms_file, file, token_map, exc, arbitrage_list,
                   platform_list, critical_alerts, existing, new_alerts, now,
                   returnedRun, returnedPast, failedRun, writeFailed>>

\* line 169, process_data returns
ProcessData ==
    /\ pc = "process"
    /\ LET r == process_data(raw_data, token_map)
       IN  /\ r.exc = "none"
           /\ arbitrage_list' = r.arbitrage_list
           /\ platform_list' = r.platform_list
    /\ pc' = "alerts"
    /\ UNCHANGED <<fetchFailed, fileAtTick>>
    /\ UNCHANGED <<UPDATE_JSON, platforms_file, file, token_map, exc, raw_data,
                   critical_alerts, existing, new_alerts, now,
                   returnedRun, returnedPast, failedRun, writeFailed>>

\* line 169, process_data raises: main_loop catches KeyboardInterrupt only
ProcessDataRaises ==
    /\ pc = "process"
    /\ LET r == process_data(raw_data, token_map)
       IN  /\ r.exc # "none"
           /\ exc' = r.exc
    /\ pc' = "crashed"
    /\ UNCHANGED <<fetchFailed, fileAtTick>>
    /\ UNCHANGED <<UPDATE_JSON, platforms_file, file, token_map, raw_data,
                   arbitrage_list, platform_list, critical_alerts, existing,
                   new_alerts, now, returnedRun, returnedPast, failedRun, writeFailed>>

\* lines 208-221
BuildAlerts ==
    /\ pc = "alerts"
    /\ critical_alerts' = build_critical_alerts(platform_list)
    /\ pc' = "filter"
    /\ UNCHANGED <<fetchFailed, fileAtTick>>
    /\ UNCHANGED <<UPDATE_JSON, platforms_file, file, token_map, exc, raw_data,
                   arbitrage_list, platform_list, existing, new_alerts, now,
                   returnedRun, returnedPast, failedRun, writeFailed>>

\* line 123 raises on a value that is no list of records with a token
FilterRaises ==
    /\ pc = "filter"
    /\ load_arb_records(file).k # "records"
    /\ exc' = "KeyError"
    /\ pc' = "crashed"
    /\ UNCHANGED <<fetchFailed, fileAtTick>>
    /\ UNCHANGED <<UPDATE_JSON, platforms_file, file, token_map, raw_data,
                   arbitrage_list, platform_list, critical_alerts, existing,
                   new_alerts, now, returnedRun, returnedPast, failedRun, writeFailed>>

\* lines 123-140 with nothing to write: no new alert, or line 115 false
FilterReturns ==
    /\ pc = "filter"
    /\ load_arb_records(file).k = "records"
    /\ LET r == filter_new(critical_alerts, load_arb_records(file).v, now)
       IN  /\ r.new_alerts = <<>> \/ ~persistence_enabled(UPDATE_JSON)
           /\ existing' = r.existing
           /\ new_alerts' = r.new_alerts
           /\ returnedRun' = returnedRun \cup tokens_of(r.new_alerts)
    /\ pc' = "notify"
    /\ UNCHANGED <<fetchFailed, fileAtTick>>
    /\ UNCHANGED <<UPDATE_JSON, platforms_file, file, token_map, exc, raw_data,
                   arbitrage_list, platform_list, critical_alerts, now,
                   returnedPast, failedRun, writeFailed>>

\* lines 123-138 and 115-117: new alerts, about to open the file for writing
FilterSaves ==
    /\ pc = "filter"
    /\ load_arb_records(file).k = "records"
    /\ LET r == filter_new(critical_alerts, load_arb_records(file).v, now)
       IN  /\ r.new_alerts # <<>>
           /\ persistence_enabled(UPDATE_JSON)
           /\ existing' = r.existing
           /\ new_alerts' = r.new_alerts
    /\ pc' = "save_open"
    /\ UNCHANGED <<fetchFailed, fileAtTick>>
    /\ UNCHANGED <<UPDATE_JSON, platforms_file, file, token_map, exc, raw_data,
                   arbitrage_list, platform_list, critical_alerts, now,
                   returnedRun, returnedPast, failedRun, writeFailed>>

\* line 117: write_text opens the file for writing, which empties it
SaveOpen ==
    /\ pc = "save_open"
    /\ file' = [k |-> "unparsable", v |-> <<>>]
    /\ pc' = "save_write"
    /\ UNCHANGED <<fetchFailed, fileAtTick>>
    /\ UNCHANGED <<UPDATE_JSON, platforms_file, token_map, exc, raw_data,
                   arbitrage_list, platform_list, critical_alerts, existing,
                   new_alerts, now, returnedRun, returnedPast, failedRun, writeFailed>>

\* lines 117-119: the open fails; logged, filter_new_alerts returns
SaveOpenFails ==
    /\ pc = "save_open"
    /\ writeFailed' = TRUE
    /\ failedRun' = failedRun \cup tokens_of(new_alerts)
    /\ returnedRun' = returnedRun \cup tokens_of(new_alerts)
    /\ pc' = "notify"
    /\ UNCHANGED <<fetchFailed, fileAtTick>>
    /\ UNCHANGED <<UPDATE_JSON, platforms_file, file, token_map, exc, raw_data,
                   arbitrage_list, platform_list, critical_alerts, existing,
                   new_alerts, now, returnedPast>>

\* line 117: the write completes; filter_new_alerts returns
SaveWrite ==
    /\ pc = "save_write"
    /\ file' = [k |-> "records", v |-> saved_records(existing, new_alerts)]
    /\ returnedRun' = returnedRun \cup tokens_of(new_alerts)
    /\ pc' = "notify"
    /\ UNCHANGED <<fetchFailed, fileAtTick>>
    /\ UNCHANGED <<UPDATE_JSON, platforms_file, token_map, exc, raw_data,
                   arbitrage_list, platform_list, critical_alerts, existing,
                   new_alerts, now, returnedPast, failedRun, writeFailed>>

\* lines 117-119: the write fails part way; logged, filter_new_alerts returns
SaveWriteFails ==
    /\ pc = "save_write"
    /\ writeFailed' = TRUE
    /\ failedRun' = failedRun \cup tokens_of(new_alerts)
    /\ returnedRun' = returnedRun \cup tokens_of(new_alerts)
    /\ pc' = "notify"
    /\ UNCHANGED <<fetchFailed, fileAtTick>>
    /\ UNCHANGED <<UPDATE_JSON, platforms_file, file, token_map, exc, raw_data,
                   arbitrage_list, platform_list, critical_alerts, existing,
                   new_alerts, now, returnedPast>>

\* lines 225-239: the report, the spoken alerts and the sleep of at least 1 s
NotifyAndSleep ==
    /\ pc = "notify"
    /\ now' = now + 1
    /\ pc' = "fetch"
    /\ fetchFailed' = FALSE
    /\ fileAtTick' = file
    /\ UNCHANGED <<UPDATE_JSON, platforms_file, file, token_map, exc, raw_data,
                   arbitrage_list, platform_list, critical_alerts, existing,
                   new_alerts, returnedRun, returnedPast, failedRun, writeFailed>>

\* lines 241-242: KeyboardInterrupt at any point of the loop; one that
\* arrives between the open and the end of the write leaves the file cut short
Interrupt ==
    /\ pc \in LoopPcs
    /\ pc' = "exited"
    /\ writeFailed' = (writeFailed \/ pc = "save_write")
    /\ UNCHANGED <<fetchFailed, fileAtTick>>
    /\ UNCHANGED <<UPDATE_JSON, platforms_file, file, token_map, exc, raw_data,
                   arbitrage_list, platform_list, critical_alerts, existing,
                   new_alerts, now, returnedRun, returnedPast, failedRun>>

\* the program is started again: the file stays, the memory is lost
Restart ==
    /\ pc \in {"exited", "crashed"}
    /\ pc' = "boot"
    /\ exc' = "none"
    /\ token_map' = EmptyMap
    /\ raw_data' = <<>>
    /\ arbitrage_list' = <<>>
    /\ platform_list' = <<>>
    /\ critical_alerts' = <<>>
    /\ existing' = <<>>
    /\ new_alerts' = <<>>
    /\ returnedPast' = returnedPast \cup returnedRun
    /\ returnedRun' = {}
    /\ failedRun' = {}
    /\ fetchFailed' = FALSE
    /\ fileAtTick' = file
    /\ UNCHANGED <<UPDATE_JSON, platforms_file, file, now, writeFailed>>

Next ==
    \/ Boot
    \/ FetchOk
    \/ FetchFails
    \/ ProcessData
    \/ ProcessDataRaises
    \/ BuildAlerts
    \/ FilterRaises
    \/ FilterReturns
    \/ FilterSaves
    \/ SaveOpen
    \/ SaveOpenFails
    \/ SaveWrite
    \/ SaveWriteFails
    \/ NotifyAndSleep
    \/ Interrupt
    \/ Restart

Spec == Init /\ [][Next]_vars

----------------------------------------------------------------------------
(* process_data and the alert-eligible list on their own *)

InitData ==
    /\ UPDATE_JSON = <<"n", "o">>
    /\ platforms_file \in PlatformFiles
    /\ file = [k |-> "absent", v |-> <<>>]
    /\ token_map = load_platforms(platforms_file)
    /\ pc = "process"
    /\ raw_data \in SeqsUpTo(Tickers, MaxTickers)
    /\ InitCommon

NextData ==
    \/ ProcessData
    \/ ProcessDataRaises
    \/ BuildAlerts

SpecData == InitData /\ [][NextData]_vars

----------------------------------------------------------------------------
(* Properties of the record store, under Spec *)

\* filter_new_alerts returns in this step
FilterReturnStep == pc \in {"filter", "save_open", "save_write"} /\ pc' = "notify"

\* C1: within one process run, a token is returned as new by
\* filter_new_alerts at most once, whether persistence is enabled or not.
C1_NewAtMostOncePerRun ==
    [][FilterReturnStep => tokens_of(new_alerts') \cap returnedRun = {}]_vars

\* C2: with persistence enabled and every write of the record file
\* succeeding, a token returned as new in one process run is not returned as
\* new by any call of a later run.
C2_NeverNewAfterRestart ==
    [][(FilterReturnStep /\ persistence_enabled(UPDATE_JSON) /\ ~writeFailed')
          => tokens_of(new_alerts') \cap returnedPast = {}]_vars

\* a later run is shown an alert for a token an earlier run returned as new,
\* and returns nothing for it
C2_Witness ==
    /\ pc = "notify"
    /\ persistence_enabled(UPDATE_JSON)
    /\ ~writeFailed
    /\ \E i \in DOMAIN critical_alerts :
          /\ critical_alerts[i].token \in returnedPast
          /\ critical_alerts[i].token \notin tokens_of(new_alerts)

\* C3: the list returned by one filter_new_alerts call holds at most one
\* record per token.
C3_OneRecordPerToken ==
    \A i, j \in DOMAIN new_alerts :
        i # j => new_alerts[i].token # new_alerts[j].token

\* two alert-eligible venues of one unrecorded token gave one new record
C3_Witness ==
    /\ pc = "notify"
    /\ \E i, j \in DOMAIN critical_alerts :
          /\ i # j
          /\ critical_alerts[i].token = critical_alerts[j].token
          /\ critical_alerts[i].message.platform # critical_alerts[j].message.platform
          /\ Cardinality({k \in DOMAIN new_alerts :
                            new_alerts[k].token = critical_alerts[i].token}) = 1

\* C4: with persistence enabled, the tokens returned as new by a call whose
\* write of the record file failed are not returned as new again by a later
\* call of the same run.
C4_FailedWriteKeepsDedup ==
    [][(FilterReturnStep /\ persistence_enabled(UPDATE_JSON))
          => tokens_of(new_alerts') \cap failedRun = {}]_vars

\* C5: with persistence disabled (UPDATE_JSON = "no") no step changes the
\* record file, so an absent file stays absent and a fresh load stays empty.
C5_DisabledNeverWrites ==
    [][UPDATE_JSON = <<"n", "o">>
          => /\ file' = file
             /\ (file.k = "absent" => load_arb_records(file').v = <<>>)]_vars

\* a restarted process, after a run that returned new alerts, finds no file
C5_Witness ==
    /\ UPDATE_JSON = <<"n", "o">>
    /\ pc = "boot"
    /\ returnedPast # {}
    /\ file.k = "absent"

----------------------------------------------------------------------------
(* Properties of process_data and of the alert-eligible list, under SpecData *)

ProcessDataActed == pc \in {"alerts", "filter", "crashed"}

\* the items of l that satisfy no Drop, in order
RECURSIVE Without(_, _)
Without(l, drop) ==
    IF l = <<>> THEN <<>>
    ELSE (IF Head(l) \in drop THEN <<>> ELSE <<Head(l)>>) \o Without(Tail(l), drop)

ZeroMarkTickers ==
    {t \in Tickers : t.markPrice.k = "num" /\ t.markPrice.v = 0}

MalformedTickers ==
    {t \in Tickers : \/ t.symbol.k # "str"
                     \/ t.markPrice.k # "num"
                     \/ t.indexPrice.k # "num"
                     \/ t.fundingRate.k # "num"}

\* process_data returned what it returns for the snapshot without drop
SameAsWithout(drop) ==
    LET r == process_data(Without(raw_data, drop), token_map)
    IN  /\ pc # "crashed"
        /\ arbitrage_list = r.arbitrage_list
        /\ platform_list = r.platform_list

\* C6: a ticker whose mark price parses to 0 is rejected: process_data
\* returns, with the candidates and opportunities of the other tickers.
C6_ZeroMarkRejected ==
    ( /\ ProcessDataActed
      /\ \E i \in DOMAIN raw_data : raw_data[i] \in ZeroMarkTickers
      /\ process_data(Without(raw_data, ZeroMarkTickers), token_map).exc = "none" )
    => SameAsWithout(ZeroMarkTickers)

\* C7: a ticker with a missing or non-numeric field is skipped: process_data
\* returns, with the candidates and opportunities of the other tickers.
C7_MalformedSkipped ==
    ( /\ ProcessDataActed
      /\ \E i \in DOMAIN raw_data : raw_data[i] \in MalformedTickers
      /\ process_data(Without(raw_data, MalformedTickers), token_map).exc = "none" )
    => SameAsWithout(MalformedTickers)

\* the threshold the claim gives to a venue type
ClaimedThreshold(type) ==
    CASE type = "heyue" -> ARBITRAGE_THRESHOLD_CONTRACT
      [] type = "jiedai" -> ARBITRAGE_THRESHOLD_LENDING

\* C8: the alert-eligible list holds, in order, exactly the opportunities
\* with abs(deviation) >= the threshold of their venue type.
C8_EligibleIffAtThreshold ==
    pc = "filter" =>
        LET E == {i \in DOMAIN platform_list :
                    Abs(platform_list[i].deviation)
                        >= ClaimedThreshold(platform_list[i].type)}
        IN  /\ Len(critical_alerts) = Cardinality(E)
            /\ \A i \in E :
                 LET a == critical_alerts[Cardinality({j \in E : j <= i})]
                 IN  /\ a.message.pair = platform_list[i].pair
                     /\ a.message.platform = platform_list[i].platform

\* a contract venue at exactly 1.00 and a lending venue below 3.00
C8_Witness ==
    /\ pc = "filter"
    /\ critical_alerts # <<>>
    /\ \E i \in DOMAIN platform_list :
          /\ platform_list[i].type = "heyue"
          /\ Abs(platform_list[i].deviation) = ARBITRAGE_THRESHOLD_CONTRACT
    /\ \E i \in DOMAIN platform_list :
          /\ platform_list[i].type = "jiedai"
          /\ Abs(platform_list[i].deviation) < ARBITRAGE_THRESHOLD_LENDING

Orders(n) ==
    {f \in [1..n -> 1..n] : \A i, j \in 1..n : i # j => f[i] # f[j]}

\* C9: the candidate list is the candidates in descending order of the
\* abs of their computed deviation, equal ones in snapshot order.
C9_SortedByComputedDeviation ==
    (ProcessDataActed /\ pc # "crashed") =>
        LET r == process_loop(raw_data, token_map)
            n == Len(r.cands)
        IN  /\ Len(arbitrage_list) = n
            /\ \E f \in Orders(n) :
                  /\ \A i \in 1..n : arbitrage_list[i] = r.cands[f[i]]
                  /\ \A i, j \in 1..n :
                        i < j => \/ Abs(r.devs[f[i]]) > Abs(r.devs[f[j]])
                                 \/ /\ Abs(r.devs[f[i]]) = Abs(r.devs[f[j]])
                                    /\ f[i] < f[j]

WellFormed(t) ==
    /\ t.symbol.k = "str"
    /\ t.markPrice.k = "num" /\ t.markPrice.v # 0
    /\ t.indexPrice.k = "num"
    /\ t.fundingRate.k = "num"

AboveThreshold(t) ==
    Abs(deviation_of(t.indexPrice.v, t.markPrice.v)) > DEVIATION_THRESHOLD

\* C10: the candidates are the well-formed tickers with abs(deviation)
\* strictly above the deviation threshold, token by token, whatever the
\* registry holds.
C10_CandidateIffAboveThreshold ==
    (ProcessDataActed /\ pc # "crashed") =>
        LET C == {i \in DOMAIN raw_data :
                    WellFormed(raw_data[i]) /\ AboveThreshold(raw_data[i])}
        IN  /\ Len(arbitrage_list) = Cardinality(C)
            /\ \A t \in {FOO, BAR, QUX} :
                 Cardinality({k \in DOMAIN arbitrage_list : arbitrage_list[k].token = t})
                 = Cardinality({i \in C : base_token_of(raw_data[i].symbol.v) = t})

\* a ticker at the threshold is no candidate; a token of no venue is one
C10_Witness ==
    /\ pc = "alerts"
    /\ \E i \in DOMAIN raw_data :
          /\ WellFormed(raw_data[i])
          /\ Abs(deviation_of(raw_data[i].indexPrice.v, raw_data[i].markPrice.v))
                = DEVIATION_THRESHOLD
    /\ \E k \in DOMAIN arbitrage_list :
          /\ arbitrage_list[k].token \notin DOMAIN token_map
          /\ \A i \in DOMAIN platform_list :
                split_first(platform_list[i].pair) # arbitrage_list[k].token
    /\ Len(arbitrage_list) = 1

\* the opportunity the claim expects of the ticker t and the registry entry e
ExpectedOpportunity(t, e) ==
    [pair |-> base_token_of(t.symbol.v) \o <<"_">> \o USDT,
     deviation |-> deviation_of(t.indexPrice.v, t.markPrice.v),
     funding_rate |-> t.fundingRate.v * 100,
     type |-> e.type,
     platform |-> e.platform]

\* C11: no opportunity for a token absent from the registry; for each
\* candidate whose token has n registry entries exactly n opportunities, one
\* per entry, with the candidate's deviation and funding rate and the
\* entry's type and platform.
C11_OneOpportunityPerEntry ==
    (ProcessDataActed /\ pc # "crashed") =>
        LET C == {i \in DOMAIN raw_data :
                    WellFormed(raw_data[i]) /\ AboveThreshold(raw_data[i])}
            entries(i) ==
                LET t == base_token_of(raw_data[i].symbol.v)
                IN  IF t \in DOMAIN token_map THEN token_map[t] ELSE <<>>
            X == UNION {{<<i, e>> : e \in DOMAIN entries(i)} : i \in C}
            opp(x) == ExpectedOpportunity(raw_data[x[1]], entries(x[1])[x[2]])
        IN  /\ Len(platform_list) = Cardinality(X)
            /\ \A x \in X :
                 Cardinality({k \in DOMAIN platform_list : platform_list[k] = opp(x)})
                 = Cardinality({y \in X : opp(y) = opp(x)})
            /\ \A k \in DOMAIN platform_list :
                 split_first(platform_list[k].pair) \in DOMAIN token_map

\* a candidate of no venue beside a candidate of two venues
C11_Witness ==
    /\ pc = "alerts"
    /\ Len(arbitrage_list) = 2
    /\ Len(platform_list) = 2
    /\ \E k \in DOMAIN arbitrage_list : arbitrage_list[k].token \notin DOMAIN token_map
    /\ platform_list[1].platform # platform_list[2].platform
    /\ platform_list[1].pair = platform_list[2].pair

OpportunityKey(o) == <<Abs(o.deviation), Abs(o.funding_rate)>>

KeyNotBefore(a, b) ==
    \/ a[1] > b[1]
    \/ a[1] = b[1] /\ a[2] >= b[2]

\* C12: the opportunity list is in descending order of abs(deviation), then
\* of abs(funding rate); opportunities equal on both keep the order in which
\* they were produced.
C12_OpportunitiesRanked ==
    (ProcessDataActed /\ pc # "crashed") =>
        LET produced == process_loop(raw_data, token_map).opps
            keys == {OpportunityKey(produced[i]) : i \in DOMAIN produced}
        IN  /\ Len(platform_list) = Len(produced)
            /\ \A i \in 1..(Len(platform_list) - 1) :
                 KeyNotBefore(OpportunityKey(platform_list[i]),
                              OpportunityKey(platform_list[i + 1]))
            /\ \A key \in keys :
                 SelectSeq(platform_list, LAMBDA o : OpportunityKey(o) = key)
                 = SelectSeq(produced, LAMBDA o : OpportunityKey(o) = key)

\* equal deviations ranked by funding rate against the snapshot order, and
\* the two venues of one candidate in registry order
C12_Witness ==
    /\ pc = "alerts"
    /\ platform_list # process_loop(raw_data, token_map).opps
    /\ Len(platform_list) = 4
    /\ Abs(platform_list[2].deviation) = Abs(platform_list[3].deviation)
    /\ Abs(platform_list[2].funding_rate) > Abs(platform_list[3].funding_rate)
    /\ OpportunityKey(platform_list[1]) = OpportunityKey(platform_list[2])
    /\ platform_list[1].platform = "X"
    /\ platform_list[2].platform = "Y"

----------------------------------------------------------------------------
(* Properties of the polling loop and of the record file, under Spec *)

\* C13: a tick whose fetch failed has no candidate, no opportunity, no
\* alert-eligible entry and no new alert, leaves the record file as it was,
\* and does not end the loop.
C13_FetchFailureIsEmptyTick ==
    fetchFailed =>
        /\ pc \notin {"crashed", "save_open", "save_write"}
        /\ file = fileAtTick
        /\ pc \in {"alerts", "filter", "notify"}
              => arbitrage_list = <<>> /\ platform_list = <<>>
        /\ pc \in {"filter", "notify"} => critical_alerts = <<>>
        /\ pc = "notify" => new_alerts = <<>>

\* C14: on a record file that is missing, unreadable or malformed,
\* filter_new_alerts raises nothing and returns every distinct
\* alert-eligible token as new.
C14_BadFileIsEmptyStore ==
    [][(pc = "filter" /\ file.k \in {"absent", "unparsable", "malformed"}
          /\ pc' # "exited")
          => /\ pc' # "crashed"
             /\ tokens_of(new_alerts') = tokens_of(critical_alerts)]_vars

\* C15: when the loop exits on an interrupt, the record file holds its
\* complete content from before the cycle or the complete new content.
C15_InterruptLeavesFileWhole ==
    [][(pc' = "exited" /\ ~writeFailed)
          => \/ file' = fileAtTick
             \/ file' = [k |-> "records", v |-> existing]]_vars

\* the records filter_new_alerts loaded in the tick under way
LoadedAtTick == load_arb_records(fileAtTick).v

\* C16: filter_new_alerts returns one record for every token of its input
\* that is no key of the loaded store, with the message of the token's first
\* entry, in the order of those first entries, and no other record.
C16_ReturnsFirstEntriesInOrder ==
    pc = "notify" =>
        LET F == {i \in DOMAIN critical_alerts :
                    /\ critical_alerts[i].token \notin tokens_of(LoadedAtTick)
                    /\ \A j \in 1..(i - 1) :
                          critical_alerts[j].token # critical_alerts[i].token}
        IN  /\ Len(new_alerts) = Cardinality(F)
            /\ \A i \in F :
                 LET r == new_alerts[Cardinality({j \in F : j <= i})]
                 IN  /\ r.token = critical_alerts[i].token
                     /\ r.message = critical_alerts[i].message

\* two new tokens, one of them with a second entry
C16_Witness ==
    /\ pc = "notify"
    /\ Len(new_alerts) = 2
    /\ Len(critical_alerts) = 3
    /\ critical_alerts[1].token = critical_alerts[2].token
    /\ critical_alerts[1].message # critical_alerts[2].message

DistinctTokens(l) ==
    \A i, j \in DOMAIN l : i # j => l[i].token # l[j].token

\* C17: every content written to the record file has pairwise distinct
\* tokens: the tokens loaded and the tokens of the alert-eligible list, once
\* each.
C17_WrittenTokensDistinct ==
    [][(file' # file /\ file'.k = "records")
          => /\ DistinctTokens(file'.v)
             /\ tokens_of(file'.v)
                  = tokens_of(LoadedAtTick) \cup tokens_of(critical_alerts)]_vars

\* a recorded token came again beside a new one, and the file was written
C17_Witness ==
    /\ pc = "notify"
    /\ file # fileAtTick
    /\ file.k = "records"
    /\ Len(file.v) = 2
    /\ \E i \in DOMAIN critical_alerts :
          critical_alerts[i].token \in tokens_of(LoadedAtTick)

\* C19: with persistence enabled and a well-formed record file, every record
\* of the file before a filter_new_alerts call is in the file after it,
\* unchanged, and a call that finds no new token leaves the file as it was.
C19_StoreOnlyGrows ==
    (pc = "notify" /\ persistence_enabled(UPDATE_JSON) /\ fileAtTick.k = "records")
    => /\ \A i \in DOMAIN fileAtTick.v :
            /\ file.k = "records"
            /\ \E j \in DOMAIN file.v : file.v[j] = fileAtTick.v[i]
       /\ new_alerts = <<>> => file = fileAtTick

----------------------------------------------------------------------------
(* load_platforms and the first tick, over more registry files *)

InitRegistry ==
    /\ UPDATE_JSON = <<"n", "o">>
    /\ platforms_file \in RegistryFiles
    /\ file = [k |-> "absent", v |-> <<>>]
    /\ token_map = EmptyMap
    /\ pc = "boot"
    /\ raw_data = <<>>
    /\ InitCommon

NextRegistry ==
    \/ Boot
    \/ FetchOk
    \/ FetchFails
    \/ ProcessData
    \/ ProcessDataRaises

SpecRegistry == InitRegistry /\ [][NextRegistry]_vars

\* the index with, for every (venue, token) pair of cfg, one entry under
\* Norm(token), in configuration order
IndexOf(cfg, Norm(_)) ==
    LET P == UNION {{<<d, t>> : t \in DOMAIN cfg.v[d].pairs.v} : d \in DOMAIN cfg.v}
        key(x) == Norm(cfg.v[x[1]].pairs.v[x[2]])
        NotAfter(x, y) == x[1] < y[1] \/ (x[1] = y[1] /\ x[2] <= y[2])
        entries(k) ==
            LET S == {x \in P : key(x) = k}
            IN  [n \in 1..Cardinality(S) |->
                    LET x == CHOOSE x \in S :
                                Cardinality({y \in S : NotAfter(y, x)}) = n
                    IN  [platform |-> cfg.v[x[1]].platform.v,
                         type |-> cfg.v[x[1]].type.v]]
    IN  [k \in {key(x) : x \in P} |-> entries(k)]

Upper(token) == str_upper(token)

StripUpper(token) == str_upper(str_strip(token))

\* the file is readable and every descriptor has its three fields
WellFormedConfig(cfg) ==
    /\ cfg.k = "json"
    /\ \A d \in DOMAIN cfg.v :
          /\ cfg.v[d].platform.k = "val"
          /\ cfg.v[d].type.k = "val"
          /\ cfg.v[d].pairs.k = "val"

\* reading the file raises, or a descriptor has no pairs, or has a pair and
\* no platform or no type
RaisingConfig(cfg) ==
    \/ cfg.k # "json"
    \/ \E d \in DOMAIN cfg.v :
          \/ cfg.v[d].pairs.k # "val"
          \/ /\ cfg.v[d].pairs.v # <<>>
             /\ cfg.v[d].platform.k # "val" \/ cfg.v[d].type.k # "val"

====
